---- MODULE Spec2Model ----
(***************************************************************************)
(* A model of the python-rsa library: PKCS#1 v1.5 encryption and signing   *)
(* (rsa/pkcs1.py), the PEM codec (rsa/pem.py), the number theory of        *)
(* rsa/common.py, MGF1 (rsa/pkcs1_v2.py), the random numbers and the prime *)
(* search (rsa/randnum.py, rsa/prime.py, rsa/parallel.py) and the command  *)
(* line operations (rsa/cli.py).                                           *)
(*                                                                         *)
(* Byte strings are sequences of numbers 0..255.  A Python integer that    *)
(* holds a padded block (88 bits and more) does not fit a TLC integer, so  *)
(* an integer is represented by its minimal big-endian byte string (no     *)
(* leading zero byte, zero is the empty string) and arithmetic is done on  *)
(* the digits.                                                             *)
(*                                                                         *)
(* rsa/transform.py, rsa/core.py and rsa/key.py are modelled from the      *)
(* specification.  Modular exponentiation on such integers is out of       *)
(* reach, so the RSA primitive is abstracted to what the padding layer     *)
(* relies on: the public and the private operation of a key pair are a     *)
(* permutation of 0..n-1 and its inverse.  hashlib is abstracted to a      *)
(* digest of the right size that depends on the message and the method.    *)
(*                                                                         *)
(* Each component has its own specification (SpecCrypt, SpecSign, SpecPem, *)
(* SpecGcd, SpecNum, SpecMgf, SpecRand, SpecRandint, SpecPrime,           *)
(* SpecGetprime, SpecPar, SpecCli); the variables of the other components stay at rest.  A call   *)
(* that raises is a result like any other: the exception is recorded with  *)
(* the name Python gives it.                                               *)
(***************************************************************************)
EXTENDS Integers, Sequences, FiniteSets, TLC

VARIABLES
    \* rsa/pkcs1.py encrypt / decrypt
    pc,          \* "idle", "padding" (in the while loop), "encrypted", "failed", "decrypted"
    key,         \* the key pair in use
    message,     \* encrypt's message
    padding,     \* _pad_for_encryption's accumulated padding
    padded,      \* the block _pad_for_encryption returned
    crypto,      \* the ciphertext
    cleartext,   \* decrypt's decrypted block
    origin,      \* where decrypt's ciphertext came from: "encrypt" or "foreign"
    outcome      \* what the last call returned or raised

VARIABLES
    \* rsa/pkcs1.py sign / verify
    spc,         \* "idle", "signed", "failed", "verified"
    skey,        \* the key pair in use
    smessage,    \* sign's message
    shash,       \* sign's hash_method
    signature,   \* the signature block
    sign_exc,    \* what sign raised, "none" when it returned
    vmessage,    \* verify's message
    clearsig,    \* verify's recovered block
    sorigin,     \* where verify's signature came from: "sign" or "foreign"
    verified     \* what verify returned or raised

VARIABLES
    \* rsa/pem.py save_pem / load_pem
    ppc,          \* "idle", "saved", "loaded"
    pem_contents, \* save_pem's contents
    pem_marker,   \* the marker of both calls
    pem_text,     \* the PEM file: what save_pem returned, or load_pem's contents
    pem_lines,    \* load_pem's pem_lines
    pem_origin,   \* where load_pem's file came from: "save" or "foreign"
    pem_result    \* what load_pem returned or raised

VARIABLES
    \* rsa/common.py extended_gcd / inverse / crt
    npc,         \* "idle", "gcd_loop" (in the while loop), "gcd_done", "inverse_done", "crt_done"
    nargs,       \* the arguments of the call
    egcd,        \* extended_gcd's locals a, b, x, y, lastx, lasty
    nresult      \* what the call returned or raised

VARIABLES
    \* rsa/pkcs1_v2.py mgf1
    mpc,         \* "idle", "done"
    margs,       \* seed, length, hasher
    mresult      \* what mgf1 returned or raised

VARIABLES
    \* rsa/randnum.py read_random_bits / read_random_int
    rpc,         \* "idle", "done", "randint_loop", "randint_done"
    rmaxvalue,   \* maxvalue of randint
    rnbits,      \* nbits; bit_size in randint
    rdraw,       \* what os.urandom gave: the whole bytes and the last byte
    rbytes,      \* what read_random_bits returned
    rvalue       \* what read_random_int returned

VARIABLES
    \* rsa/prime.py miller_rabin_primality_testing / is_prime / getprime
    prime_pc,     \* "idle", "miller_rabin_done", "is_prime_done", "getprime_loop",
                  \* "getprime_done", "getprime_raised"
    prime_args,   \* n and k of the primality test
    prime_draws,  \* what the random source gives to the witnesses
    prime_result, \* what the call returned or raised
    gp_nbits,     \* getprime's nbits
    gp_integer,   \* getprime's integer, the candidate
    gp_rejected   \* the candidates getprime has drawn and not returned

VARIABLES
    \* rsa/parallel.py getprime
    par_pc,      \* "idle", "starting" (in the first for loop), "recv", "terminating"
                 \* (in the second for loop), "returned", "raised"
    par_args,    \* nbits, poolsize
    procs,       \* processes: "running", "exited" or "terminated" for each worker
    pipes,       \* pipes: what each worker has sent and getprime has not received
    term_i,      \* the place of the second for loop in processes
    par_result,  \* result, and what getprime raised
    first_sent   \* the worker that sent the first prime of all, 0 before

VARIABLES
    \* rsa/cli.py CryptoOperation.__call__
    cli_pc,      \* "idle", the step that comes next, "done", "exited"
    cli_op,      \* "encrypt", "decrypt", "sign" or "verify"
    cli_argv,    \* the command line
    cli_op_ok,   \* whether the operation succeeds on the input
    cli_trace,   \* the steps of __call__ that were called, in order
    cli_exit     \* the exit status and the exception that ended the run

cryptVars == <<pc, key, message, padding, padded, crypto, cleartext, origin, outcome>>

signVars == <<spc, skey, smessage, shash, signature, sign_exc, vmessage, clearsig,
              sorigin, verified>>

pemVars == <<ppc, pem_contents, pem_marker, pem_text, pem_lines, pem_origin, pem_result>>

numVars == <<npc, nargs, egcd, nresult>>

mgfVars == <<mpc, margs, mresult>>

randVars == <<rpc, rmaxvalue, rnbits, rdraw, rbytes, rvalue>>

primeVars == <<prime_pc, prime_args, prime_draws, prime_result, gp_nbits, gp_integer, gp_rejected>>

parVars == <<par_pc, par_args, procs, pipes, term_i, par_result, first_sent>>

cliVars == <<cli_pc, cli_op, cli_argv, cli_op_ok, cli_trace, cli_exit>>

vars == <<cryptVars, signVars, pemVars, numVars, mgfVars, randVars, primeVars, parVars, cliVars>>

\* what the actions of one component leave alone
cryptOthers ==
    <<signVars, pemVars, numVars, mgfVars, randVars, primeVars,
          parVars, cliVars>>

signOthers ==
    <<cryptVars, pemVars, numVars, mgfVars, randVars,
          primeVars, parVars, cliVars>>

pemOthers ==
    <<cryptVars, signVars, numVars, mgfVars, randVars,
          primeVars, parVars, cliVars>>

numOthers ==
    <<cryptVars, signVars, pemVars, mgfVars, randVars,
          primeVars, parVars, cliVars>>

mgfOthers ==
    <<cryptVars, signVars, pemVars, numVars, randVars,
          primeVars, parVars, cliVars>>

randOthers ==
    <<cryptVars, signVars, pemVars, numVars, mgfVars,
          primeVars, parVars, cliVars>>

primeOthers ==
    <<cryptVars, signVars, pemVars, numVars, mgfVars, randVars,
          parVars, cliVars>>

parOthers ==
    <<cryptVars, signVars, pemVars, numVars, mgfVars, randVars,
          primeVars, cliVars>>

cliOthers ==
    <<cryptVars, signVars, pemVars, numVars, mgfVars, randVars,
          primeVars, parVars>>

----------------------------------------------------------------------------
(* Byte strings *)

Rep(b, n) == [i \in 1..n |-> b]

Min(S) == CHOOSE x \in S : \A y \in S : x <= y

Max2(a, b) == IF a >= b THEN a ELSE b

\* Python's s[from:to] for 0 <= from, to
Slice(s, from, to) == SubSeq(s, from + 1, IF to < Len(s) THEN to ELSE Len(s))

\* Python's s[from:]
SliceFrom(s, from) == SubSeq(s, from + 1, Len(s))

\* bytes.find(b, start): the first 0-based index >= start holding b, or -1
Find(s, b, start) ==
    LET hits == {i \in start..(Len(s) - 1) : s[i + 1] = b}
    IN  IF hits = {} THEN -1 ELSE Min(hits)

\* bytes.startswith
StartsWith(s, prefix) ==
    /\ Len(prefix) <= Len(s)
    /\ SubSeq(s, 1, Len(prefix)) = prefix

\* bytes.replace(b'\x00', b'')
RemoveZeros(s) == SelectSeq(s, LAMBDA x : x # 0)

RECURSIVE Concat(_)
\* b''.join(parts)
Concat(parts) ==
    IF parts = <<>> THEN <<>> ELSE Head(parts) \o Concat(Tail(parts))

----------------------------------------------------------------------------
(* Integers as digit strings (rsa/transform.py, rsa/core.py, rsa/key.py)   *)

\* the digits from the first non-zero one on
StripZeros(b) ==
    LET nz == {i \in 1..Len(b) : b[i] # 0}
    IN  IF nz = {} THEN <<>> ELSE SubSeq(b, Min(nz), Len(b))

\* big-endian unsigned decode; the empty string is 0
bytes2int(b) == StripZeros(b)

IntFits(x, fill_size) == Len(x) <= fill_size

\* big-endian unsigned encode, left-padded with 0x00 to fill_size bytes
int2bytes(x, fill_size) == Rep(0, fill_size - Len(x)) \o x

PadLeft(x, n) == Rep(0, n - Len(x)) \o x

\* the carry into digit i of a + b (equal lengths): some lower digit pair
\* overflows and every pair between passes the carry on
CarryInto(a, b, i) ==
    \E j \in (i + 1)..Len(a) :
        /\ a[j] + b[j] >= 256
        /\ \A l \in (i + 1)..(j - 1) : a[l] + b[l] = 255

\* a + b (equal lengths), one digit longer
AddDigits(a, b) ==
    [i \in 1..(Len(a) + 1) |->
        LET c == IF CarryInto(a, b, i - 1) THEN 1 ELSE 0
        IN  IF i = 1 THEN c ELSE (a[i - 1] + b[i - 1] + c) % 256]

\* the borrow into digit i of a - b (equal lengths)
BorrowInto(a, b, i) ==
    \E j \in (i + 1)..Len(a) :
        /\ a[j] < b[j]
        /\ \A l \in (i + 1)..(j - 1) : a[l] = b[l]

\* a - b (equal lengths, a >= b)
SubDigits(a, b) ==
    [i \in 1..Len(a) |->
        LET c == IF BorrowInto(a, b, i) THEN 1 ELSE 0
        IN  (a[i] - b[i] - c + 256) % 256]

IntAdd(a, b) ==
    LET n == Max2(Len(a), Len(b))
    IN  StripZeros(AddDigits(PadLeft(a, n), PadLeft(b, n)))

IntSub(a, b) == StripZeros(SubDigits(a, PadLeft(b, Len(a))))

IntLess(a, b) ==
    IF Len(a) # Len(b) THEN Len(a) < Len(b)
    ELSE \E i \in 1..Len(a) :
            /\ a[i] < b[i]
            /\ \A j \in 1..(i - 1) : a[j] = b[j]

\* The RSA primitive.  m^e mod n and c^d mod n with d*e = 1 (mod phi(n)) are a
\* permutation of 0..n-1 and its inverse; the model takes the translation
\* x -> x + e (mod n) and its inverse x -> x + d (mod n), d = n - e.
ModOp(x, exp, n) ==
    LET t == IntAdd(x, exp)
    IN  IF IntLess(t, n) THEN t ELSE IntSub(t, n)

encrypt_int(m, e, n) == ModOp(m, e, n)

decrypt_int(c, e, n) == ModOp(c, e, n)

\* PrivateKey.blinded_decrypt: the blinding factor cancels in the result
blinded_decrypt(priv_key, c) == ModOp(c, priv_key.d, priv_key.n)

\* PrivateKey.blinded_encrypt
blinded_encrypt(priv_key, m) == ModOp(m, priv_key.d, priv_key.n)

RECURSIVE bit_size(_)
\* len(bin(abs(num))) - 2, and 0 for 0
bit_size(num) ==
    IF num = 0 THEN 0
    ELSE IF num < 0 THEN bit_size(-num)
    ELSE 1 + bit_size(num \div 2)

\* bit_size of an integer given by its digits
int_bit_size(n) ==
    IF n = <<>> THEN 0 ELSE 8 * (Len(n) - 1) + bit_size(n[1])

byte_size(n) == (int_bit_size(n) + 7) \div 8

\* A key pair whose modulus has k bytes and the leading byte top.  The
\* modulus stands for a product of two primes; the abstract primitive uses
\* only its size and the exponents' relation e + d = n.
KeyPair(k, top) ==
    LET n == <<top>> \o Rep(59, k - 1)
        e == <<90>> \o Rep(17, k - 1)
    IN  [n |-> n, e |-> e, d |-> IntSub(n, e)]

----------------------------------------------------------------------------
(* rsa/pkcs1.py: PKCS#1 v1.5 encryption *)

Returned(v) == [exc |-> "none", msg |-> "", value |-> v]

Raised(e, m) == [exc |-> e, msg |-> m, value |-> <<>>]

Pending == [exc |-> "pending", msg |-> "", value |-> <<>>]

OverflowMsg == "%i bytes needed for message, but there is only space for %i"

max_msglength_off(target_length) == target_length - 10

max_msglength(target_length) == target_length - 11

padding_length(msg, target_length) == target_length - Len(msg) - 3

filter_padding_none(new_padding) == new_padding

\* new_padding.replace(b'\x00', b'')
filter_padding(new_padding) == RemoveZeros(new_padding)

pad_iteration_untruncated(pad, pad_len, urandom) ==
    pad \o filter_padding(urandom)

\* one iteration of the while loop; urandom is what os.urandom(needed_bytes + 5) gave
pad_iteration(pad, pad_len, urandom) ==
    LET needed_bytes == pad_len - Len(pad)
        new_padding  == filter_padding(urandom)
    IN  pad \o Slice(new_padding, 0, needed_bytes)

\* b''.join([b'\x00\x02', padding, b'\x00', message])
pad_block(pad, msg) == Concat(<< <<0, 2>>, pad, <<0>>, msg >>)

\* encrypt, after _pad_for_encryption returned the block
encrypt_block(block, pub_key) ==
    LET keylength == byte_size(pub_key.n)
        payload   == bytes2int(block)
        encrypted == encrypt_int(payload, pub_key.e, pub_key.n)
    IN  IF IntFits(encrypted, keylength)
        THEN Returned(int2bytes(encrypted, keylength))
        ELSE Raised("OverflowError", "Needed more bytes than fill_size")

\* decrypt's block: int2bytes(priv_key.blinded_decrypt(bytes2int(crypto)), blocksize)
decrypt_cleartext(c, priv_key) ==
    LET blocksize == byte_size(priv_key.n)
        encrypted == bytes2int(c)
        decrypted == blinded_decrypt(priv_key, encrypted)
    IN  int2bytes(decrypted, blocksize)

\* decrypt, from the decrypted block on
unpad(clear) ==
    IF Slice(clear, 0, 2) # <<0, 2>>
    THEN Raised("DecryptionError", "Decryption failed")
    ELSE LET sep_idx == Find(clear, 0, 2)
         IN  IF sep_idx = -1
             THEN Raised("DecryptionError", "Decryption failed")
             ELSE Returned(SliceFrom(clear, sep_idx + 1))

(* Bounds of the encryption model *)

MinKeyBytes == 10

MaxKeyBytes == 12

MaxMsgLen == 3

MsgBytes == {0, 65}

RandNonZero == {2, 255}

Messages == UNION {[1..n -> MsgBytes] : n \in 0..MaxMsgLen}

CryptKeys == {KeyPair(k, 197) : k \in MinKeyBytes..MaxKeyBytes}

\* Blocks a holder of the public key can have encrypted: two leading bytes, a
\* run of non-zero bytes, and either nothing more or a 0x00 and a tail.
ForeignBlocks(k) ==
    {head \o Rep(f, j) \o (IF j = k - 2 THEN <<>> ELSE <<0>> \o Rep(t, k - 3 - j)) :
        head \in [1..2 -> {0, 1, 2}], f \in RandNonZero, j \in 0..(k - 2), t \in MsgBytes}

\* encrypt(message, pub_key) up to the while loop of _pad_for_encryption
Encrypt(m) ==
    /\ pc = "idle"
    /\ message' = m
    /\ origin' = "encrypt"
    /\ IF Len(m) > max_msglength(byte_size(key.n))
       THEN /\ pc' = "failed"
            /\ outcome' = Raised("OverflowError", OverflowMsg)
       ELSE /\ pc' = "padding"
            /\ outcome' = outcome
    /\ UNCHANGED <<key, padding, padded, crypto, cleartext>>
    /\ UNCHANGED cryptOthers

\* one iteration of the while loop
PadLoop ==
    /\ pc = "padding"
    /\ LET pad_len == padding_length(message, byte_size(key.n))
       IN  /\ Len(padding) < pad_len
           /\ \E nz \in RandNonZero :
                \E urandom \in [1..(pad_len - Len(padding) + 5) -> {0, nz}] :
                    padding' = pad_iteration(padding, pad_len, urandom)
    /\ UNCHANGED <<pc, key, message, padded, crypto, cleartext, origin, outcome>>
    /\ UNCHANGED cryptOthers

\* the loop ends, _pad_for_encryption returns and encrypt finishes
EncryptReturn ==
    /\ pc = "padding"
    /\ ~(Len(padding) < padding_length(message, byte_size(key.n)))
    /\ padded' = pad_block(padding, message)
    /\ LET r == encrypt_block(padded', key)
       IN  IF r.exc = "none"
           THEN /\ crypto' = r.value
                /\ pc' = "encrypted"
                /\ outcome' = outcome
           ELSE /\ crypto' = crypto
                /\ pc' = "failed"
                /\ outcome' = r
    /\ UNCHANGED <<key, message, padding, cleartext, origin>>
    /\ UNCHANGED cryptOthers

\* decrypt(crypto, priv_key) of the ciphertext encrypt returned
Decrypt ==
    /\ pc = "encrypted"
    /\ cleartext' = decrypt_cleartext(crypto, key)
    /\ outcome' = unpad(cleartext')
    /\ pc' = "decrypted"
    /\ UNCHANGED <<key, message, padding, padded, crypto, origin>>
    /\ UNCHANGED cryptOthers

\* decrypt(crypto, priv_key) of a ciphertext somebody else made with the public key
DecryptForeign ==
    /\ pc = "idle"
    /\ \E em \in ForeignBlocks(byte_size(key.n)) :
          crypto' = encrypt_block(em, key).value
    /\ origin' = "foreign"
    /\ cleartext' = decrypt_cleartext(crypto', key)
    /\ outcome' = unpad(cleartext')
    /\ pc' = "decrypted"
    /\ UNCHANGED <<key, message, padding, padded>>
    /\ UNCHANGED cryptOthers

CryptNext ==
    \/ \E m \in Messages : Encrypt(m)
    \/ PadLoop
    \/ EncryptReturn
    \/ Decrypt
    \/ DecryptForeign

(* Claims about encrypt and decrypt *)

KeyLength == byte_size(key.n)

NoZero(s) == \A i \in 1..Len(s) : s[i] # 0

\* C2: decrypting what encrypt returned for a message of at most k - 11 bytes
\* gives back exactly that message, zero bytes and the empty message included,
\* whatever padding was drawn.
C2_DecryptEncrypt ==
    (pc = "decrypted" /\ origin = "encrypt") => outcome = Returned(message)

C2_Witness ==
    /\ pc = "decrypted"
    /\ origin = "encrypt"
    /\ Len(message) = KeyLength - 11
    /\ message # <<>>
    /\ message[1] = 0
    /\ outcome = Returned(message)

\* C3: decrypt returns a plaintext only for a block that starts 00 02 and whose
\* first 0x00 after index 1 is at an index >= 10; a separator within the first
\* 10 bytes raises DecryptionError.
C3_ShortPaddingRejected ==
    pc = "decrypted" =>
        /\ outcome.exc = "none" =>
              /\ Slice(cleartext, 0, 2) = <<0, 2>>
              /\ Find(cleartext, 0, 2) >= 10
        /\ (Find(cleartext, 0, 2) # -1 /\ Find(cleartext, 0, 2) < 10) =>
              outcome.exc = "DecryptionError"

\* C4: encrypt succeeds for every message of at most k - 11 bytes and returns
\* exactly k bytes; a message of k - 10 bytes or more raises OverflowError and
\* no ciphertext is produced.
C4_EncryptLengths ==
    origin = "encrypt" =>
        /\ Len(message) >= KeyLength - 10 =>
              /\ pc = "failed"
              /\ outcome.exc = "OverflowError"
              /\ crypto = <<>>
        /\ Len(message) <= KeyLength - 11 =>
              /\ pc \in {"padding", "encrypted", "decrypted"}
              /\ pc # "padding" => Len(crypto) = KeyLength

C4_Witness ==
    /\ pc = "encrypted"
    /\ message # <<>>
    /\ Len(message) = KeyLength - 11
    /\ Len(crypto) = KeyLength

\* C5: the block _pad_for_encryption returns is 00 02 PS 00 M of exactly k bytes,
\* PS has k - mLen - 3 >= 8 bytes, none of them 0x00, and at every iteration of
\* the loop the accumulated padding is no longer than k - mLen - 3.
C5_PaddedBlock ==
    LET pad_len == KeyLength - Len(message) - 3
    IN  /\ pc = "padding" =>
              /\ Len(padding) <= pad_len
              /\ NoZero(padding)
        /\ padded # <<>> =>
              /\ Len(padded) = KeyLength
              /\ padded = <<0, 2>> \o padding \o <<0>> \o message
              /\ Len(padding) = pad_len
              /\ pad_len >= 8
              /\ NoZero(padding)

\* a block whose padding took more than one iteration to fill
C5_Witness ==
    /\ padded # <<>>
    /\ message # <<>>
    /\ \E i, j \in 1..Len(padding) : padding[i] # padding[j]
    /\ Len(padded) = KeyLength

\* C6: every failure caused by the decrypted block (wrong leading bytes, no
\* separator, separator too early) is a DecryptionError with the one message
\* "Decryption failed".
C6_OneFailure ==
    LET sep_idx == Find(cleartext, 0, 2)
    IN  (/\ pc = "decrypted"
         /\ \/ Slice(cleartext, 0, 2) # <<0, 2>>
            \/ sep_idx = -1
            \/ sep_idx < 10)
        => outcome = Raised("DecryptionError", "Decryption failed")

----------------------------------------------------------------------------
(* rsa/pkcs1.py: PKCS#1 v1.5 signing *)

HASH_ASN1 ==
    "MD5"      :> <<48, 32, 48, 12, 6, 8, 42, 134, 72, 134, 247, 13, 2, 5, 5, 0, 4, 16>> @@
    "SHA-1"    :> <<48, 33, 48, 9, 6, 5, 43, 14, 3, 2, 26, 5, 0, 4, 20>> @@
    "SHA-224"  :> <<48, 45, 48, 13, 6, 9, 96, 134, 72, 1, 101, 3, 4, 2, 4, 5, 0, 4, 28>> @@
    "SHA-256"  :> <<48, 49, 48, 13, 6, 9, 96, 134, 72, 1, 101, 3, 4, 2, 1, 5, 0, 4, 32>> @@
    "SHA-384"  :> <<48, 65, 48, 13, 6, 9, 96, 134, 72, 1, 101, 3, 4, 2, 2, 5, 0, 4, 48>> @@
    "SHA-512"  :> <<48, 81, 48, 13, 6, 9, 96, 134, 72, 1, 101, 3, 4, 2, 3, 5, 0, 4, 64>> @@
    "SHA3-256" :> <<48, 49, 48, 13, 6, 9, 96, 134, 72, 1, 101, 3, 4, 2, 8, 5, 0, 4, 32>> @@
    "SHA3-384" :> <<48, 65, 48, 13, 6, 9, 96, 134, 72, 1, 101, 3, 4, 2, 9, 5, 0, 4, 48>> @@
    "SHA3-512" :> <<48, 81, 48, 13, 6, 9, 96, 134, 72, 1, 101, 3, 4, 2, 10, 5, 0, 4, 64>>

\* HASH_ASN1.items() iterates in insertion order
HashOrder ==
    <<"MD5", "SHA-1", "SHA-224", "SHA-256", "SHA-384", "SHA-512",
      "SHA3-256", "SHA3-384", "SHA3-512">>

\* the hashlib constructors, by the digest size of what they build
HASH_METHODS ==
    "MD5" :> 16 @@ "SHA-1" :> 20 @@ "SHA-224" :> 28 @@ "SHA-256" :> 32 @@
    "SHA-384" :> 48 @@ "SHA-512" :> 64 @@
    "SHA3-256" :> 32 @@ "SHA3-384" :> 48 @@ "SHA3-512" :> 64

RECURSIVE Checksum(_)
Checksum(msg) ==
    IF msg = <<>> THEN 1
    ELSE (Checksum(SubSeq(msg, 1, Len(msg) - 1)) * 3 + msg[Len(msg)] + 1) % 251

\* hasher.digest(): digest_size bytes that depend on the message and the method
Digest(msg, method_name) ==
    [i \in 1..HASH_METHODS[method_name] |->
        (Checksum(msg) * 7 + i * 13 + Len(HASH_ASN1[method_name])) % 256]

\* compute_hash for a method of HASH_METHODS
compute_hash(msg, method_name) == Digest(msg, method_name)

sign_max_msglength(target_length) == target_length - 11

\* b''.join([b'\x00\x01', padding_length * b'\xff', b'\x00', message])
pad_for_signing(msg, target_length) ==
    LET pad_len == target_length - Len(msg) - 3
    IN  Concat(<< <<0, 1>>, Rep(255, pad_len), <<0>>, msg >>)

sign_hash(hash_value, priv_key, hash_method) ==
    IF hash_method \notin DOMAIN HASH_ASN1
    THEN Raised("ValueError", "Invalid hash method: %s")
    ELSE LET asn1code  == HASH_ASN1[hash_method]
             clear     == asn1code \o hash_value
             keylength == byte_size(priv_key.n)
         IN  IF Len(clear) > sign_max_msglength(keylength)
             THEN Raised("OverflowError", OverflowMsg)
             ELSE LET payload   == bytes2int(pad_for_signing(clear, keylength))
                      encrypted == blinded_encrypt(priv_key, payload)
                  IN  Returned(int2bytes(encrypted, keylength))

sign(msg, priv_key, hash_method) ==
    IF hash_method \notin DOMAIN HASH_METHODS
    THEN Raised("ValueError", "Invalid hash method: %s")
    ELSE sign_hash(compute_hash(msg, hash_method), priv_key, hash_method)

\* the name of the first entry of HASH_ASN1 the block starts with; "" stands
\* for raise VerificationError('Verification failed')
find_method_hash(sig_block) ==
    LET hits == {i \in 1..Len(HashOrder) : StartsWith(sig_block, HASH_ASN1[HashOrder[i]])}
    IN  IF hits = {} THEN "" ELSE HashOrder[Min(hits)]

VReturned(name) == [exc |-> "none", msg |-> "", name |-> name]

VRaised(e, m) == [exc |-> e, msg |-> m, name |-> ""]

VPending == [exc |-> "pending", msg |-> "", name |-> ""]

\* verify's block: int2bytes(core.decrypt_int(bytes2int(signature), e, n), blocksize)
verify_clearsig(sig, pub_key) ==
    LET blocksize == byte_size(pub_key.n)
        encrypted == bytes2int(sig)
        decrypted == decrypt_int(encrypted, pub_key.e, pub_key.n)
    IN  int2bytes(decrypted, blocksize)

verify(msg, sig, pub_key) ==
    LET blocksize   == byte_size(pub_key.n)
        sig_block   == verify_clearsig(sig, pub_key)
        method_name == find_method_hash(sig_block)
    IN  IF method_name = ""
        THEN VRaised("VerificationError", "Verification failed")
        ELSE LET message_hash == compute_hash(msg, method_name)
                 clear        == HASH_ASN1[method_name] \o message_hash
             IN  IF Len(clear) > sign_max_msglength(blocksize)
                 THEN VRaised("OverflowError", OverflowMsg)
                 ELSE IF pad_for_signing(clear, blocksize) # sig_block
                 THEN VRaised("VerificationError", "Verification failed")
                 ELSE VReturned(method_name)

(* Bounds of the signing model *)

SmallKeyBytes == 20

MidKeyBytes == 46

BigKeyBytes == 94

MaxSignedLen == 2

SignKeys == {KeyPair(k, 197) : k \in {SmallKeyBytes, MidKeyBytes, BigKeyBytes}}

SignedMessages == UNION {[1..n -> MsgBytes] : n \in 0..MaxSignedLen}

HashInputs == DOMAIN HASH_ASN1 \cup {"CRC32"}

\* Blocks a signature can decode to that sign did not build: one starting with
\* a DigestInfo prefix, one of a single repeated byte, and a type-02 padded
\* DigestInfo.
ForeignSigBlocks(k) ==
    {HASH_ASN1[h] \o Rep(f, k - Len(HASH_ASN1[h])) :
        h \in {x \in DOMAIN HASH_ASN1 : Len(HASH_ASN1[x]) <= k}, f \in {0, 255}}
    \cup {<<0, b>> \o Rep(255, k - 2) : b \in {0, 1, 2}}
    \cup {<<0, 2>> \o SubSeq(pad_for_signing(HASH_ASN1[h] \o Digest(<<>>, h), k), 3, k) :
            h \in {x \in DOMAIN HASH_ASN1 :
                      Len(HASH_ASN1[x]) + HASH_METHODS[x] <= k - 11}}

\* sign(message, priv_key, hash_method)
Sign(m, h) ==
    /\ spc = "idle"
    /\ smessage' = m
    /\ shash' = h
    /\ sorigin' = "sign"
    /\ LET r == sign(m, skey, h)
       IN  /\ sign_exc' = r.exc
           /\ signature' = r.value
           /\ spc' = IF r.exc = "none" THEN "signed" ELSE "failed"
    /\ UNCHANGED <<skey, vmessage, clearsig, verified>>
    /\ UNCHANGED signOthers

\* verify(message, signature, pub_key) of a signature sign returned
Verify(m) ==
    /\ spc = "signed"
    /\ vmessage' = m
    /\ clearsig' = verify_clearsig(signature, skey)
    /\ verified' = verify(m, signature, skey)
    /\ spc' = "verified"
    /\ UNCHANGED <<skey, smessage, shash, signature, sign_exc, sorigin>>
    /\ UNCHANGED signOthers

\* verify(message, signature, pub_key) of a signature somebody else made
VerifyForeign(m) ==
    /\ spc = "idle"
    /\ \E em \in ForeignSigBlocks(byte_size(skey.n)) :
          signature' = int2bytes(blinded_encrypt(skey, bytes2int(em)), byte_size(skey.n))
    /\ sorigin' = "foreign"
    /\ vmessage' = m
    /\ clearsig' = verify_clearsig(signature', skey)
    /\ verified' = verify(m, signature', skey)
    /\ spc' = "verified"
    /\ UNCHANGED <<skey, smessage, shash, sign_exc>>
    /\ UNCHANGED signOthers

SignNext ==
    \/ \E m \in SignedMessages, h \in HashInputs : Sign(m, h)
    \/ \E m \in SignedMessages : Verify(m)
    \/ \E m \in SignedMessages : VerifyForeign(m)

(* Claims about sign and verify *)

\* C1: for every supported hash h and every key large enough for it, verify of
\* the signature sign made over the same message returns h and raises nothing.
C1_VerifySign ==
    (spc = "verified" /\ sorigin = "sign" /\ vmessage = smessage)
        => verified = VReturned(shash)

\* the block is the type-01 padded DigestInfo of the message under some hash
IsSignatureOf(sig_block, msg, k) ==
    \E h \in DOMAIN HASH_ASN1 :
        /\ Len(HASH_ASN1[h]) + HASH_METHODS[h] <= k - 11
        /\ sig_block = pad_for_signing(HASH_ASN1[h] \o Digest(msg, h), k)

\* C7: verify raises VerificationError, and returns no hash name, whenever the
\* recovered block is not the type-01 padded DigestInfo of the message, or holds
\* no known DigestInfo prefix.
C7_MismatchRejected ==
    (spc = "verified" /\ ~IsSignatureOf(clearsig, vmessage, byte_size(skey.n)))
        => verified = VRaised("VerificationError", "Verification failed")

----------------------------------------------------------------------------
(* rsa/pem.py: the PEM codec.  Characters are their ASCII codes. *)

Dashes == <<45, 45, 45, 45, 45>>

\* (b'-----BEGIN ' + pem_marker + b'-----', b'-----END ' + pem_marker + b'-----')
markers(marker) ==
    << Dashes \o <<66, 69, 71, 73, 78, 32>> \o marker \o Dashes,
       Dashes \o <<69, 78, 68, 32>> \o marker \o Dashes >>

RECURSIVE Split(_, _)
\* bytes.split(sep)
Split(s, sep) ==
    LET i == Find(s, sep, 0)
    IN  IF i = -1 THEN <<s>>
        ELSE <<Slice(s, 0, i)>> \o Split(SliceFrom(s, i + 1), sep)

Whitespace == {9, 10, 11, 12, 13, 32}

\* bytes.strip()
Strip(line) ==
    LET ink == {i \in 1..Len(line) : line[i] \notin Whitespace}
    IN  IF ink = {} THEN <<>>
        ELSE SubSeq(line, Min(ink), CHOOSE i \in ink : \A j \in ink : j <= i)

\* b'\n'.join(lines)
JoinLines(lines) ==
    Concat([i \in 1..Len(lines) |->
               IF i = Len(lines) THEN lines[i] ELSE lines[i] \o <<10>>])

\* the base64 alphabet: the character of a 6-bit value
B64Char(v) ==
    IF v < 26 THEN 65 + v
    ELSE IF v < 52 THEN 97 + (v - 26)
    ELSE IF v < 62 THEN 48 + (v - 52)
    ELSE IF v = 62 THEN 43 ELSE 47

\* the 6-bit value of a character, 64 for a character outside the alphabet
B64Value(ch) ==
    IF ch >= 65 /\ ch <= 90 THEN ch - 65
    ELSE IF ch >= 97 /\ ch <= 122 THEN ch - 97 + 26
    ELSE IF ch >= 48 /\ ch <= 57 THEN ch - 48 + 52
    ELSE IF ch = 43 THEN 62
    ELSE IF ch = 47 THEN 63 ELSE 64

At0(s, i) == IF i < Len(s) THEN s[i + 1] ELSE 0

\* base64.b64encode: 4 characters for every 3 bytes, '=' for the missing ones
b64encode(x) ==
    [c \in 1..(4 * ((Len(x) + 2) \div 3)) |->
        LET g  == (c - 1) \div 4
            r  == (c - 1) % 4
            b0 == At0(x, 3 * g)
            b1 == At0(x, 3 * g + 1)
            b2 == At0(x, 3 * g + 2)
        IN  IF r = 0 THEN B64Char(b0 \div 4)
            ELSE IF r = 1 THEN B64Char((b0 % 4) * 16 + b1 \div 16)
            ELSE IF r = 2 THEN (IF 3 * g + 1 >= Len(x) THEN 61
                                ELSE B64Char((b1 % 16) * 4 + b2 \div 64))
            ELSE (IF 3 * g + 2 >= Len(x) THEN 61 ELSE B64Char(b2 % 64))]

\* base64.b64decode(s), validate=False: characters outside the alphabet are
\* skipped, a complete run of '=' ends the input, and a quad left incomplete
\* at the end is an error.
b64decode(s) ==
    LET IsData(i)   == B64Value(s[i]) < 64
        quad_pos(p) == Cardinality({i \in 1..(p - 1) : IsData(i)}) % 4
        last(p)     == LET d == {i \in 1..(p - 1) : IsData(i)}
                       IN  IF d = {} THEN 0 ELSE CHOOSE i \in d : \A j \in d : j <= i
        pads(p)     == Cardinality({i \in (last(p) + 1)..p : s[i] = 61})
        stops       == {p \in 1..Len(s) :
                          /\ s[p] = 61
                          /\ quad_pos(p) >= 2
                          /\ quad_pos(p) + pads(p) >= 4}
        upto        == IF stops = {} THEN Len(s) ELSE Min(stops) - 1
        data        == SelectSeq(SubSeq(s, 1, upto), LAMBDA ch : B64Value(ch) < 64)
        n           == Len(data)
        nbytes      == 3 * (n \div 4) + (IF n % 4 = 3 THEN 2 ELSE IF n % 4 = 2 THEN 1 ELSE 0)
        v(i)        == B64Value(data[i + 1])
    IN  IF stops = {} /\ n % 4 # 0
        THEN Raised("binascii.Error", "Incorrect padding")
        ELSE Returned([b \in 1..nbytes |->
                LET g == (b - 1) \div 3
                    r == (b - 1) % 3
                IN  IF r = 0 THEN v(4 * g) * 4 + v(4 * g + 1) \div 16
                    ELSE IF r = 1 THEN (v(4 * g + 1) % 16) * 16 + v(4 * g + 2) \div 4
                    ELSE (v(4 * g + 2) % 4) * 64 + v(4 * g + 3)])

RECURSIVE pem_lines_no_break(_, _, _, _, _)
pem_lines_no_break(lines, i, in_pem_part, pem_start, pem_end) ==
    IF i > Len(lines) THEN <<>>
    ELSE LET line == Strip(lines[i])
             rest == pem_lines_no_break(lines, i + 1, in_pem_part \/ line = pem_start,
                                        pem_start, pem_end)
         IN  IF in_pem_part /\ line # pem_start /\ line # pem_end
             THEN <<line>> \o rest
             ELSE rest

RECURSIVE pem_lines_from(_, _, _, _, _)
\* the generator _pem_lines, from line i on: what it yields
pem_lines_from(lines, i, in_pem_part, pem_start, pem_end) ==
    IF i > Len(lines) THEN <<>>
    ELSE LET line == Strip(lines[i])
         IN  IF line = pem_start
             THEN pem_lines_from(lines, i + 1, TRUE, pem_start, pem_end)
             ELSE IF in_pem_part
             THEN (IF line = pem_end THEN <<>>
                   ELSE <<line>> \o pem_lines_from(lines, i + 1, TRUE, pem_start, pem_end))
             ELSE pem_lines_from(lines, i + 1, FALSE, pem_start, pem_end)

yielded_lines(contents, pem_start, pem_end) ==
    pem_lines_from(Split(contents, 10), 1, FALSE, pem_start, pem_end)

\* load_pem, from the list of yielded lines on
load_lines(lines, pem_start) ==
    IF lines = <<>>
    THEN Raised("ValueError", "No PEM start marker \"%s\" found")
    ELSE LET r == b64decode(Concat(lines))
         IN  IF r.exc = "none" THEN r ELSE Raised("ValueError", "Invalid PEM data")

load_pem(contents, marker) ==
    LET m == markers(marker)
    IN  load_lines(yielded_lines(contents, m[1], m[2]), m[1])

pem_blocks_short(b64) ==
    [j \in 1..((Len(b64) + 63) \div 64) |-> Slice(b64, 64 * (j - 1), 64 * (j - 1) + 63)]

\* the blocks of the for loop: b64[block_start:block_start + 64]
pem_blocks(b64) ==
    [j \in 1..((Len(b64) + 63) \div 64) |-> Slice(b64, 64 * (j - 1), 64 * (j - 1) + 64)]

save_pem(contents, marker) ==
    LET m   == markers(marker)
        b64 == SelectSeq(b64encode(contents), LAMBDA ch : ch # 10)
    IN  JoinLines(<<m[1]>> \o pem_blocks(b64) \o <<m[2]>>) \o <<10>>

(* Bounds of the PEM model *)

MaxPemLen == 50

MaxPemInputLines == 4

\* "RSA PUBLIC KEY", "RSA PRIVATE KEY", and a marker that holds a line break
PemMarkers ==
    { <<82, 83, 65, 32, 80, 85, 66, 76, 73, 67, 32, 75, 69, 89>>,
      <<82, 83, 65, 32, 80, 82, 73, 86, 65, 84, 69, 32, 75, 69, 89>>,
      <<65, 10, 66>> }

PemContents ==
    {[i \in 1..n |-> (a * i + 251) % 256] : n \in 0..MaxPemLen, a \in {0, 7}}

\* the lines a foreign file is made of, for the marker asked for
PemInputLines(marker) ==
    { markers(marker)[1],
      markers(marker)[2],
      <<32>> \o markers(marker)[1] \o <<13>>,
      markers(<<88>>)[1],
      <<89, 87, 74, 106>>,
      <<32, 90, 71, 86, 109, 13>>,
      <<32, 9>> }

PemInputs(marker) ==
    {JoinLines(ls) : ls \in UNION {[1..n -> PemInputLines(marker)] : n \in 0..MaxPemInputLines}}

\* save_pem(contents, pem_marker)
SavePem(x, marker) ==
    /\ ppc = "idle"
    /\ pem_contents' = x
    /\ pem_marker' = marker
    /\ pem_text' = save_pem(x, marker)
    /\ ppc' = "saved"
    /\ UNCHANGED <<pem_lines, pem_origin, pem_result>>
    /\ UNCHANGED pemOthers

\* load_pem(contents, pem_marker) of what save_pem returned
LoadSaved ==
    /\ ppc = "saved"
    /\ pem_origin' = "save"
    /\ pem_lines' = yielded_lines(pem_text, markers(pem_marker)[1], markers(pem_marker)[2])
    /\ pem_result' = load_pem(pem_text, pem_marker)
    /\ ppc' = "loaded"
    /\ UNCHANGED <<pem_contents, pem_marker, pem_text>>
    /\ UNCHANGED pemOthers

\* load_pem(contents, pem_marker) of a file from elsewhere
LoadForeign(marker) ==
    /\ ppc = "idle"
    /\ pem_marker' = marker
    /\ pem_text' \in PemInputs(marker)
    /\ pem_origin' = "foreign"
    /\ pem_lines' = yielded_lines(pem_text', markers(marker)[1], markers(marker)[2])
    /\ pem_result' = load_pem(pem_text', marker)
    /\ ppc' = "loaded"
    /\ UNCHANGED pem_contents
    /\ UNCHANGED pemOthers

PemNext ==
    \/ \E x \in PemContents, marker \in PemMarkers : SavePem(x, marker)
    \/ LoadSaved
    \/ \E marker \in PemMarkers : LoadForeign(marker)

(* Claims about the PEM codec *)

\* C8 as stated: for every byte string x, the empty one included, and every
\* marker, load_pem(save_pem(x, marker), marker) returns x.
C8_LoadSaveAny ==
    (ppc = "loaded" /\ pem_origin = "save") => pem_result = Returned(pem_contents)

\* C8: for every non-empty byte string x and every marker without a line break,
\* load_pem(save_pem(x, marker), marker) returns x.
C8_LoadSave ==
    (/\ ppc = "loaded"
     /\ pem_origin = "save"
     /\ pem_contents # <<>>
     /\ \A i \in 1..Len(pem_marker) : pem_marker[i] # 10)
        => pem_result = Returned(pem_contents)

\* more than one base64 line, and a length that is no multiple of 3
C8_Witness ==
    /\ ppc = "loaded"
    /\ pem_origin = "save"
    /\ Len(pem_contents) > 48
    /\ Len(pem_contents) % 3 = 1
    /\ Len(pem_lines) = 2
    /\ pem_result = Returned(pem_contents)

\* the lines of the file, stripped
StrippedLines(text) ==
    LET ls == Split(text, 10) IN [i \in 1..Len(ls) |-> Strip(ls[i])]

\* the lines strictly between the first BEGIN line and the first END line after
\* it (the end of the file when there is none), further BEGIN lines left out
BetweenMarkers(text, marker) ==
    LET ls     == StrippedLines(text)
        begins == {i \in 1..Len(ls) : ls[i] = markers(marker)[1]}
        first  == Min(begins)
        ends   == {i \in (first + 1)..Len(ls) : ls[i] = markers(marker)[2]}
        last   == IF ends = {} THEN Len(ls) + 1 ELSE Min(ends)
        keep   == {i \in (first + 1)..(last - 1) : ls[i] # markers(marker)[1]}
        nth(k) == CHOOSE i \in keep : Cardinality({j \in keep : j < i}) = k - 1
    IN  IF begins = {} THEN <<>>
        ELSE [k \in 1..Cardinality(keep) |-> ls[nth(k)]]

\* C9: load_pem decodes exactly the lines strictly between the first BEGIN line
\* of the marker and the first END line after it; lines before that BEGIN line,
\* lines after that END line and marker lines never contribute.
C9_DecodedLines ==
    ppc = "loaded" =>
        /\ pem_lines = BetweenMarkers(pem_text, pem_marker)
        /\ pem_result.exc = "none" =>
              pem_result = b64decode(Concat(BetweenMarkers(pem_text, pem_marker)))

\* a file with lines before BEGIN, between the markers and after END
C9_Witness ==
    /\ ppc = "loaded"
    /\ pem_origin = "foreign"
    /\ LET ls == StrippedLines(pem_text)
       IN  /\ Len(ls) = 4
           /\ ls[1] = <<89, 87, 74, 106>>
           /\ ls[2] = markers(pem_marker)[1]
           /\ ls[3] = <<90, 71, 86, 109>>
           /\ ls[4] = markers(pem_marker)[2]
    /\ pem_result = Returned(<<100, 101, 102>>)

\* C10: load_pem fails with the format error when the file has no BEGIN line
\* for the marker or nothing but blank lines between BEGIN and END.
C10_EmptyRejected ==
    (/\ ppc = "loaded"
     /\ \A i \in 1..Len(BetweenMarkers(pem_text, pem_marker)) :
           BetweenMarkers(pem_text, pem_marker)[i] = <<>>)
        => pem_result.exc = "ValueError"

----------------------------------------------------------------------------
(***************************************************************************)
(* rsa/common.py: extended_gcd, inverse, crt                               *)
(***************************************************************************)

\* what a call of rsa/common.py returned or raised; NotRelativePrimeError
\* carries a, b and d
NReturned(v) == [exc |-> "none", value |-> v, a |-> 0, b |-> 0, d |-> 0]

NotRelativePrimeError(a, b, d) ==
    [exc |-> "NotRelativePrimeError", value |-> 0, a |-> a, b |-> b, d |-> d]

NPending == [exc |-> "pending", value |-> 0, a |-> 0, b |-> 0, d |-> 0]

\* extended_gcd's locals before the loop
egcd_init(a, b) == [a |-> a, b |-> b, x |-> 0, y |-> 1, lastx |-> 1, lasty |-> 0]

\* one iteration of `while b`, with the update of x reversed
egcd_step_added(s) ==
    LET q == s.a \div s.b
    IN  [a |-> s.b, b |-> s.a % s.b,
         x |-> s.lastx + q * s.x, lastx |-> s.x,
         y |-> s.lasty - q * s.y, lasty |-> s.y]

\* one iteration of `while b`: a, (q, b) = b, divmod(a, b) and the two
\* coefficient updates
egcd_step(s) ==
    LET q == s.a \div s.b
    IN  [a |-> s.b, b |-> s.a % s.b,
         x |-> s.lastx - q * s.x, lastx |-> s.x,
         y |-> s.lasty - q * s.y, lasty |-> s.y]

RECURSIVE egcd_loop(_)
egcd_loop(s) == IF s.b = 0 THEN s ELSE egcd_loop(egcd_step(s))

\* return (a, lastx, lasty)
egcd_result(s) == <<s.a, s.lastx, s.lasty>>

extended_gcd(a, b) == egcd_result(egcd_loop(egcd_init(a, b)))

\* inverse that returns the coefficient as extended_gcd gave it
inverse_unreduced(x, n) ==
    LET r == extended_gcd(x, n)
    IN  IF r[1] # 1 THEN NotRelativePrimeError(x, n, r[1]) ELSE NReturned(r[2])

inverse(x, n) ==
    LET r == extended_gcd(x, n)
    IN  IF r[1] # 1 THEN NotRelativePrimeError(x, n, r[1]) ELSE NReturned(r[2] % n)

\* for m in modulo_values: prod *= m
RECURSIVE Product(_)
Product(ms) == IF ms = <<>> THEN 1 ELSE Head(ms) * Product(Tail(ms))

\* the loop over zip(a_values, modulo_values) from pair i on; an exception of
\* inverse leaves the loop
RECURSIVE crt_total(_, _, _, _, _)
crt_total(a_values, modulo_values, prod, i, total) ==
    IF i > Len(a_values) \/ i > Len(modulo_values)
    THEN NReturned(total)
    ELSE LET m_i == modulo_values[i]
             p   == prod \div m_i
             inv == inverse(p, m_i)
         IN  IF inv.exc # "none"
             THEN inv
             ELSE crt_total(a_values, modulo_values, prod, i + 1,
                            total + a_values[i] * inv.value * p)

\* crt without the final reduction
crt_unreduced(a_values, modulo_values) ==
    crt_total(a_values, modulo_values, Product(modulo_values), 1, 0)

crt(a_values, modulo_values) ==
    LET prod == Product(modulo_values)
        t    == crt_total(a_values, modulo_values, prod, 1, 0)
    IN  IF t.exc # "none" THEN t ELSE NReturned(t.value % prod)

\* Bounds of the inputs
MaxNum == 12

MaxModulus == 5

MaxCrtLen == 3

MaxResidue == 3

Divides(d, n) == n % d = 0

\* the greatest common divisor by its definition; gcd(0, 0) = 0
GCD(a, b) ==
    IF a = 0 /\ b = 0
    THEN 0
    ELSE CHOOSE d \in 1..Max2(a, b) :
            /\ Divides(d, a) /\ Divides(d, b)
            /\ \A c \in 1..Max2(a, b) : (Divides(c, a) /\ Divides(c, b)) => c <= d

PairwiseCoprime(ms) ==
    \A i, j \in 1..Len(ms) : i # j => GCD(ms[i], ms[j]) = 1

\* the examples of crt's docstring
DocCrt ==
    { <<<<2, 3>>, <<3, 5>>>>, <<<<2, 3, 2>>, <<3, 5, 7>>>>,
      <<<<2, 3, 0>>, <<7, 11, 15>>>> }

\* lists of pairwise coprime moduli, and one pair with a common factor
ModuliLists ==
    { ms \in UNION { [1..k -> 2..MaxModulus] : k \in 1..MaxCrtLen } :
         PairwiseCoprime(ms) }
    \cup { <<4, 6>> }

Residues == (-1)..MaxResidue

CrtInputs ==
    DocCrt \cup
    UNION { { <<as, ms>> : as \in [1..Len(ms) -> Residues] } : ms \in ModuliLists }

\* extended_gcd(a, b): the call
ExtendedGcd ==
    /\ npc = "idle"
    /\ \E a, b \in 0..MaxNum :
          /\ nargs' = <<a, b>>
          /\ egcd' = egcd_init(a, b)
    /\ npc' = "gcd_loop"
    /\ UNCHANGED nresult
    /\ UNCHANGED numOthers

\* one iteration of extended_gcd's while loop
GcdLoop ==
    /\ npc = "gcd_loop"
    /\ egcd.b # 0
    /\ egcd' = egcd_step(egcd)
    /\ UNCHANGED <<npc, nargs, nresult>>
    /\ UNCHANGED numOthers

\* extended_gcd leaves the loop and returns
GcdReturn ==
    /\ npc = "gcd_loop"
    /\ egcd.b = 0
    /\ npc' = "gcd_done"
    /\ nresult' = NReturned(egcd_result(egcd))
    /\ UNCHANGED <<nargs, egcd>>
    /\ UNCHANGED numOthers

GcdNext ==
    \/ ExtendedGcd
    \/ GcdLoop
    \/ GcdReturn

\* inverse(x, n)
Inverse ==
    /\ npc = "idle"
    /\ \E x \in 0..MaxNum, n \in 2..MaxNum :
          /\ nargs' = <<x, n>>
          /\ egcd' = egcd_loop(egcd_init(x, n))
          /\ nresult' = inverse(x, n)
    /\ npc' = "inverse_done"
    /\ UNCHANGED numOthers

\* crt(a_values, modulo_values)
Crt ==
    /\ npc = "idle"
    /\ \E inp \in CrtInputs :
          /\ nargs' = inp
          /\ nresult' = crt(inp[1], inp[2])
    /\ npc' = "crt_done"
    /\ UNCHANGED egcd
    /\ UNCHANGED numOthers

NumNext ==
    \/ Inverse
    \/ Crt

\* C11: inverse(x, n) returns r in [0, n) with x * r = 1 (mod n) when
\* gcd(x, n) = 1, and raises NotRelativePrimeError with a = x, b = n,
\* d = gcd(x, n) and returns no value otherwise.
C11_Inverse ==
    npc = "inverse_done" =>
        LET x == nargs[1]
            n == nargs[2]
        IN  IF GCD(x, n) = 1
            THEN /\ nresult.exc = "none"
                 /\ 0 <= nresult.value /\ nresult.value < n
                 /\ (x * nresult.value) % n = 1
            ELSE nresult = NotRelativePrimeError(x, n, GCD(x, n))

\* inverse has returned the inverse of a number whose Bezout coefficient is
\* negative
C11_Witness ==
    /\ npc = "inverse_done"
    /\ nresult.exc = "none"
    /\ egcd.lastx < 0
    /\ nargs[1] > 1

\* C12: for pairwise coprime moduli m[i] >= 2 and as many residues a[i], crt
\* returns the one x in [0, prod m[i]) with x = a[i] (mod m[i]) for every i;
\* the three examples of the docstring give 8, 23 and 135.
C12_Crt ==
    (/\ npc = "crt_done"
     /\ Len(nargs[1]) = Len(nargs[2])
     /\ PairwiseCoprime(nargs[2]))
        => LET as   == nargs[1]
               ms   == nargs[2]
               prod == Product(ms)
               Solves(x) == \A i \in 1..Len(ms) : (x - as[i]) % ms[i] = 0
           IN  /\ nresult.exc = "none"
               /\ 0 <= nresult.value /\ nresult.value < prod
               /\ Solves(nresult.value)
               /\ \A y \in 0..(prod - 1) : Solves(y) => y = nresult.value
               /\ nargs = <<<<2, 3>>, <<3, 5>>>> => nresult.value = 8
               /\ nargs = <<<<2, 3, 2>>, <<3, 5, 7>>>> => nresult.value = 23
               /\ nargs = <<<<2, 3, 0>>, <<7, 11, 15>>>> => nresult.value = 135

\* crt has returned for three moduli and a negative residue
C12_Witness ==
    /\ npc = "crt_done"
    /\ nresult.exc = "none"
    /\ Len(nargs[2]) = 3
    /\ \E i \in 1..3 : nargs[1][i] < 0
    /\ nresult.value > MaxModulus

\* the loop invariant and the result of extended_gcd
C13_LoopInvariant ==
    LET a0 == nargs[1]
        b0 == nargs[2]
    IN  /\ npc = "gcd_loop" =>
              /\ egcd.a = egcd.lastx * a0 + egcd.lasty * b0
              /\ egcd.b = egcd.x * a0 + egcd.y * b0
              /\ egcd.a >= 0 /\ egcd.b >= 0
              /\ GCD(egcd.a, egcd.b) = GCD(a0, b0)
        /\ npc = "gcd_done" =>
              /\ nresult.exc = "none"
              /\ nresult.value[1] = GCD(a0, b0)
              /\ nresult.value[1] = nresult.value[2] * a0 + nresult.value[3] * b0

\* C13: extended_gcd(a, b) with a, b >= 0 terminates and returns (g, u, v)
\* with g = gcd(a, b) = u*a + v*b; in the loop the current a and b are the
\* combinations of the inputs with the tracked coefficients.
C13_ExtendedGcd ==
    /\ []C13_LoopInvariant
    /\ (npc = "gcd_loop") ~> (npc = "gcd_done")

\* extended_gcd has returned after several iterations, with a negative
\* coefficient
C13_Witness ==
    /\ npc = "gcd_done"
    /\ nresult.value[1] > 1
    /\ nresult.value[1] < nargs[1]
    /\ nresult.value[1] < nargs[2]
    /\ nresult.value[2] < 0

----------------------------------------------------------------------------
(***************************************************************************)
(* rsa/pkcs1_v2.py: mgf1                                                   *)
(*                                                                         *)
(* The length is an integer as a digit string, so that 2**32 * h_len can   *)
(* be compared with it.                                                    *)
(***************************************************************************)

\* the names the module binds: its imports, mgf1 and __all__
pkcs1_v2_globals == {"common", "pkcs1", "transform", "mgf1", "__all__"}

\* a number below 256 as an integer, and back
SmallInt(n) == IF n = 0 THEN <<>> ELSE <<n>>

SmallValue(digits) == IF digits = <<>> THEN 0 ELSE digits[1]

\* counter.to_bytes(4, byteorder='big')
to_bytes4(counter) ==
    <<(counter \div 16777216) % 256, (counter \div 65536) % 256,
      (counter \div 256) % 256, counter % 256>>

\* (2**32) * h_len
max_mask_length(h_len) == <<h_len, 0, 0, 0, 0>>

\* the while loop: t grows by one digest per counter until it has length bytes
RECURSIVE mgf1_loop(_, _, _, _, _)
mgf1_loop(seed, length, hasher, t, counter) ==
    IF Len(t) < length
    THEN mgf1_loop(seed, length, hasher,
                   t \o Digest(seed \o to_bytes4(counter), hasher), counter + 1)
    ELSE t

\* mgf1(seed, length, hasher): the lookup of the global name HASH_METHODS comes
\* first
mgf1(seed, length, hasher) ==
    IF "HASH_METHODS" \notin pkcs1_v2_globals
    THEN Raised("NameError", "name 'HASH_METHODS' is not defined")
    ELSE IF hasher \notin DOMAIN HASH_METHODS
    THEN Raised("ValueError", "Invalid hash method")
    ELSE IF IntLess(max_mask_length(HASH_METHODS[hasher]), length)
    THEN Raised("OverflowError", "Desired length too long")
    ELSE Returned(Slice(mgf1_loop(seed, SmallValue(length), hasher, <<>>, 0),
                        0, SmallValue(length)))

\* Bounds of the inputs
MaxMaskLen == 22

MgfSeeds == {<<>>, <<115, 101, 101, 100>>, <<0>>}

\* the lengths up to MaxMaskLen, and 2**32 * 20 + 1 and 2**32 * 64 + 1
MgfLengths ==
    {SmallInt(n) : n \in 0..MaxMaskLen} \cup {<<20, 0, 0, 0, 1>>, <<64, 0, 0, 0, 1>>}

MgfHashers == DOMAIN HASH_METHODS \cup {"INVALID"}

\* mgf1(seed, length, hasher)
Mgf1 ==
    /\ mpc = "idle"
    /\ \E seed \in MgfSeeds, length \in MgfLengths, hasher \in MgfHashers :
          /\ margs' = <<seed, length, hasher>>
          /\ mresult' = mgf1(seed, length, hasher)
    /\ mpc' = "done"
    /\ UNCHANGED mgfOthers

MgfNext ==
    \/ Mgf1

\* H(seed || I2OSP(0, 4)) || ... || H(seed || I2OSP(blocks - 1, 4))
RECURSIVE MaskBlocks(_, _, _)
MaskBlocks(seed, hasher, blocks) ==
    IF blocks = 0 THEN <<>>
    ELSE MaskBlocks(seed, hasher, blocks - 1)
            \o Digest(seed \o to_bytes4(blocks - 1), hasher)

\* C14: for a supported hash and a length up to 2^32 * hLen, mgf1 returns
\* exactly length bytes, the first of H(seed || I2OSP(0, 4)) ||
\* H(seed || I2OSP(1, 4)) || ...; mgf1(b"", 0) is empty; a longer length
\* raises OverflowError.
C14_Mgf1 ==
    (mpc = "done" /\ margs[3] \in DOMAIN HASH_METHODS)
        => LET seed   == margs[1]
               length == margs[2]
               h_len  == HASH_METHODS[margs[3]]
           IN  IF IntLess(max_mask_length(h_len), length)
               THEN mresult.exc = "OverflowError"
               ELSE /\ mresult.exc = "none"
                    /\ Len(mresult.value) = SmallValue(length)
                    /\ mresult.value =
                          SubSeq(MaskBlocks(seed, margs[3],
                                    (SmallValue(length) + h_len - 1) \div h_len),
                                 1, SmallValue(length))
                    /\ (seed = <<>> /\ length = <<>>) => mresult.value = <<>>

----------------------------------------------------------------------------
(***************************************************************************)
(* rsa/randnum.py: read_random_bits, read_random_int, read_random_odd_int, *)
(* randint                                                                 *)
(*                                                                         *)
(* What os.urandom gives is an input of each operator.                     *)
(***************************************************************************)

\* the value of an integer that fits the model's numbers
RECURSIVE NativeInt(_)
NativeInt(digits) ==
    IF digits = <<>> THEN 0
    ELSE NativeInt(SubSeq(digits, 1, Len(digits) - 1)) * 256 + digits[Len(digits)]

\* read_random_bits(nbits): whole_bytes is os.urandom(nbytes), last is
\* os.urandom(1)[0]; the masked byte is appended
read_random_bits(nbits, whole_bytes, last) ==
    LET rbits == nbits % 8
    IN  IF rbits > 0
        THEN whole_bytes \o <<last % (2 ^ rbits)>>
        ELSE whole_bytes

read_random_int(nbits, whole_bytes, last) ==
    NativeInt(bytes2int(read_random_bits(nbits, whole_bytes, last)))

\* read_random_odd_int without the `| 1`
read_random_odd_int_plain(nbits, whole_bytes, last) ==
    read_random_int(nbits, whole_bytes, last)

\* read_random_int(nbits) | 1
read_random_odd_int(nbits, whole_bytes, last) ==
    LET value == read_random_int(nbits, whole_bytes, last)
    IN  IF value % 2 = 0 THEN value + 1 ELSE value

\* Bounds of the inputs
MaxBits == 10

\* the bytes the random source gives
UrandomBytes == {0, 1, 2, 3, 5, 41, 128, 255}

\* os.urandom(nbytes) for the nbytes of read_random_bits(nbits)
Urandom(nbits) == [1..(nbits \div 8) -> UrandomBytes]

\* os.urandom(1)[0], read only when nbits is not a multiple of 8
UrandomLast(nbits) == IF nbits % 8 > 0 THEN UrandomBytes ELSE {0}

\* read_random_int(nbits), with the bytes read_random_bits returned
ReadRandomInt ==
    /\ rpc = "idle"
    /\ \E nbits \in 1..MaxBits :
          \E whole_bytes \in Urandom(nbits), last \in UrandomLast(nbits) :
             /\ rnbits' = nbits
             /\ rdraw' = <<whole_bytes, last>>
             /\ rbytes' = read_random_bits(nbits, whole_bytes, last)
             /\ rvalue' = read_random_int(nbits, whole_bytes, last)
    /\ rpc' = "done"
    /\ UNCHANGED rmaxvalue
    /\ UNCHANGED randOthers

RandNext ==
    \/ ReadRandomInt

\* C15: read_random_bits(nbits) returns ceil(nbits / 8) bytes whose
\* big-endian value is below 2^nbits: when nbits is not a multiple of 8 the
\* upper 8 - (nbits mod 8) bits of the high-order byte are zero.
C15_RandomBits ==
    rpc = "done" =>
        /\ Len(rbytes) = (rnbits + 7) \div 8
        /\ rvalue < 2 ^ rnbits
        /\ rnbits % 8 # 0 => rbytes[1] < 2 ^ (rnbits % 8)

\* Bounds of randint's maxvalue: every maxvalue up to MaxRandint, and the
\* maxvalues on both sides of the first bit size above one byte
MaxRandint == 17

RandintMaxvalues == (1..MaxRandint) \cup {255, 256}

\* every byte the random source can give
AllBytes == 0..255

\* what os.urandom can give to the read_random_bits(bit_size) of randint
RandintUrandom(nbits) == [1..(nbits \div 8) -> AllBytes]

RandintLast(nbits) == IF nbits % 8 > 0 THEN AllBytes ELSE {0}

\* the values randint(maxvalue) can return over all outputs of the random
\* source: the values of read_random_int(bit_size) the loop accepts
randint_values(maxvalue) ==
    LET size == bit_size(maxvalue)
    IN  { value \in { read_random_int(size, whole_bytes, last) :
                          whole_bytes \in RandintUrandom(size),
                          last \in RandintLast(size) } :
            1 <= value /\ value <= maxvalue }

\* randint(maxvalue): bit_size = common.bit_size(maxvalue)
Randint ==
    /\ rpc = "idle"
    /\ \E maxvalue \in RandintMaxvalues :
          /\ rmaxvalue' = maxvalue
          /\ rnbits' = bit_size(maxvalue)
    /\ rpc' = "randint_loop"
    /\ UNCHANGED <<rdraw, rbytes, rvalue>>
    /\ UNCHANGED randOthers

\* a turn of `while True` whose value = read_random_int(bit_size) satisfies
\* 1 <= value <= maxvalue: the value is returned
RandintReturn ==
    /\ rpc = "randint_loop"
    /\ \E whole_bytes \in RandintUrandom(rnbits), last \in RandintLast(rnbits) :
          LET value == read_random_int(rnbits, whole_bytes, last)
          IN  /\ 1 <= value /\ value <= rmaxvalue
              /\ rbytes' = read_random_bits(rnbits, whole_bytes, last)
              /\ rvalue' = value
    /\ rpc' = "randint_done"
    /\ UNCHANGED <<rmaxvalue, rnbits, rdraw>>
    /\ UNCHANGED randOthers

\* a turn of `while True` whose value is outside the range: the value is
\* dropped, the next turn draws again
RandintRetry ==
    /\ rpc = "randint_loop"
    /\ \E whole_bytes \in RandintUrandom(rnbits), last \in RandintLast(rnbits) :
          LET value == read_random_int(rnbits, whole_bytes, last)
          IN  ~(1 <= value /\ value <= rmaxvalue)
    /\ UNCHANGED randVars
    /\ UNCHANGED randOthers

RandintNext ==
    \/ Randint
    \/ RandintReturn
    \/ RandintRetry

\* C21: for every maxvalue >= 1 the set of values randint(maxvalue) can
\* return over all outputs of the random source is exactly 1..maxvalue: a
\* returned value is never outside the range, and every value of the range is
\* the value of some draw of bit_size(maxvalue) random bits.
C21_Randint ==
    /\ rpc = "randint_done" => (1 <= rvalue /\ rvalue <= rmaxvalue)
    /\ rpc \in {"randint_loop", "randint_done"} =>
          randint_values(rmaxvalue) = 1..rmaxvalue

----------------------------------------------------------------------------
(***************************************************************************)
(* rsa/prime.py: miller_rabin_primality_testing, is_prime, getprime        *)
(*                                                                         *)
(* The numbers the random source would give to the witnesses are an input  *)
(* (draws), one per round.                                                 *)
(***************************************************************************)

\* get_primality_testing_rounds(number)
get_primality_testing_rounds(number) ==
    LET bitsize == bit_size(number)
    IN  IF bitsize >= 1536 THEN 3
        ELSE IF bitsize >= 1024 THEN 4
        ELSE IF bitsize >= 512 THEN 7
        ELSE 10

\* the call of rsa.randnum.randint, which is def randint(maxvalue), with the
\* positional arguments args; draw is the value the rejection loop ends with
randint_call(args, draw) ==
    IF Len(args) # 1
    THEN Raised("TypeError", "randint() takes 1 positional argument but 2 were given")
    ELSE Returned(draw)

\* pow(base, exp, n)
RECURSIVE PowMod(_, _, _)
PowMod(base, exp, n) ==
    IF exp = 0 THEN 1 % n ELSE (PowMod(base, exp - 1, n) * base) % n

\* r, s with n - 1 = 2^r * s and s odd: the first while loop
RECURSIVE factor_twos(_, _)
factor_twos(r, s) == IF s % 2 = 0 THEN factor_twos(r + 1, s \div 2) ELSE <<r, s>>

\* the inner loop `for _ in range(r - 1)`: TRUE when it breaks (x = n - 1),
\* FALSE when it runs out (the else branch)
RECURSIVE inner_squares(_, _, _)
inner_squares(x, n, left) ==
    IF left = 0 THEN FALSE
    ELSE LET x2 == (x * x) % n
         IN  IF x2 = n - 1 THEN TRUE ELSE inner_squares(x2, n, left - 1)

\* the rounds i..k of `for _ in range(k)`
RECURSIVE mr_rounds(_, _, _, _, _, _)
mr_rounds(n, k, r, s, draws, i) ==
    IF i > k THEN Returned(TRUE)
    ELSE LET a == randint_call(<<2, n - 1>>, draws[i])
         IN  IF a.exc # "none" THEN a
             ELSE LET x == PowMod(a.value, s, n)
                  IN  IF x = 1 \/ x = n - 1
                      THEN mr_rounds(n, k, r, s, draws, i + 1)
                      ELSE IF inner_squares(x, n, r - 1)
                      THEN mr_rounds(n, k, r, s, draws, i + 1)
                      ELSE Returned(FALSE)

miller_rabin_primality_testing(n, k, draws) ==
    IF n = 2 \/ n = 3 THEN Returned(TRUE)
    ELSE IF n < 2 \/ n % 2 = 0 THEN Returned(FALSE)
    ELSE LET rs == factor_twos(0, n - 1)
         IN  mr_rounds(n, k, rs[1], rs[2], draws, 1)

is_prime(number, draws) ==
    IF number < 2 THEN Returned(FALSE)
    ELSE IF number = 2 THEN Returned(TRUE)
    ELSE IF number % 2 = 0 THEN Returned(FALSE)
    ELSE miller_rabin_primality_testing(number,
            get_primality_testing_rounds(number), draws)

\* Bounds of the inputs
MaxPrimeInput == 42

MaxRounds == 2

MaxTries == 3

\* what the random source gives to a witness
WitnessDraws == {2, 3}

\* the draws of the k rounds of one call
Draws(k) == [1..k -> WitnessDraws]

\* the draws of a call of is_prime: the same number in every round
PrimeDraws == { [i \in 1..10 |-> d] : d \in WitnessDraws }

\* miller_rabin_primality_testing(n, k)
MillerRabin ==
    /\ prime_pc = "idle"
    /\ \E n \in (-1)..MaxPrimeInput, k \in 1..MaxRounds :
          \E draws \in Draws(k) :
             /\ prime_args' = <<n, k>>
             /\ prime_draws' = draws
             /\ prime_result' = miller_rabin_primality_testing(n, k, draws)
    /\ prime_pc' = "miller_rabin_done"
    /\ UNCHANGED <<gp_nbits, gp_integer, gp_rejected>>
    /\ UNCHANGED primeOthers

\* is_prime(number)
IsPrime ==
    /\ prime_pc = "idle"
    /\ \E number \in (-1)..MaxPrimeInput, draws \in PrimeDraws :
          /\ prime_args' = <<number, get_primality_testing_rounds(number)>>
          /\ prime_draws' = draws
          /\ prime_result' = is_prime(number, draws)
    /\ prime_pc' = "is_prime_done"
    /\ UNCHANGED <<gp_nbits, gp_integer, gp_rejected>>
    /\ UNCHANGED primeOthers

PrimeNext ==
    \/ MillerRabin
    \/ IsPrime

\* getprime(nbits): the call
GetPrime ==
    /\ prime_pc = "idle"
    /\ \E nbits \in 2..MaxBits : gp_nbits' = nbits
    /\ prime_pc' = "getprime_loop"
    /\ UNCHANGED <<prime_args, prime_draws, prime_result, gp_integer, gp_rejected>>
    /\ UNCHANGED primeOthers

\* one iteration of getprime's `while True`: a candidate is drawn and tested;
\* it is returned, or rejected, or is_prime raises
GetPrimeTry ==
    /\ prime_pc = "getprime_loop"
    /\ Len(gp_rejected) < MaxTries
    /\ \E whole_bytes \in Urandom(gp_nbits), last \in UrandomLast(gp_nbits),
          draws \in PrimeDraws :
          LET integer == read_random_odd_int(gp_nbits, whole_bytes, last)
              tested  == is_prime(integer, draws)
          IN  /\ gp_integer' = integer
              /\ prime_draws' = draws
              /\ IF tested.exc # "none"
                 THEN /\ prime_pc' = "getprime_raised"
                      /\ prime_result' = tested
                      /\ UNCHANGED gp_rejected
                 ELSE IF tested.value
                 THEN /\ prime_pc' = "getprime_done"
                      /\ prime_result' = Returned(integer)
                      /\ UNCHANGED gp_rejected
                 ELSE /\ prime_pc' = "getprime_loop"
                      /\ gp_rejected' = Append(gp_rejected, integer)
                      /\ UNCHANGED prime_result
    /\ UNCHANGED <<prime_args, gp_nbits>>
    /\ UNCHANGED primeOthers

GetPrimeNext ==
    \/ GetPrime
    \/ GetPrimeTry

\* a prime number, by its definition
IsPrimeNumber(n) == n > 1 /\ \A d \in 2..(n - 1) : n % d # 0

\* C16: miller_rabin_primality_testing(n, k) with k >= 1 and is_prime(n)
\* return a Boolean for every choice of witnesses: True for 2 and 3, False
\* below 2 and for even n > 2, never False for a prime; is_prime(41) is True
\* and is_prime(42) is False.
C16_PrimalityTest ==
    prime_pc \in {"miller_rabin_done", "is_prime_done"} =>
        LET n == prime_args[1]
        IN  /\ prime_result.exc = "none"
            /\ prime_result.value \in BOOLEAN
            /\ n \in {2, 3} => prime_result.value = TRUE
            /\ (n < 2 \/ (n > 2 /\ n % 2 = 0)) => prime_result.value = FALSE
            /\ IsPrimeNumber(n) => prime_result.value # FALSE
            /\ (prime_pc = "is_prime_done" /\ n = 41) => prime_result.value = TRUE
            /\ (prime_pc = "is_prime_done" /\ n = 42) => prime_result.value = FALSE

\* every candidate getprime has rejected was refused by is_prime
RejectedByIsPrime ==
    \A i \in 1..Len(gp_rejected) :
        \A draws \in PrimeDraws : is_prime(gp_rejected[i], draws) = Returned(FALSE)

\* C20: a value getprime(nbits) returns is odd, was accepted by is_prime and
\* fits nbits bits; the candidates before it were rejected by is_prime and
\* none of them is returned.
C20_GetPrime ==
    /\ prime_pc \in {"getprime_loop", "getprime_raised", "getprime_done"} =>
          RejectedByIsPrime
    /\ prime_pc = "getprime_done" =>
          /\ prime_result.exc = "none"
          /\ prime_result.value = gp_integer
          /\ prime_result.value % 2 = 1
          /\ is_prime(prime_result.value, prime_draws) = Returned(TRUE)
          /\ bit_size(prime_result.value) <= gp_nbits
          /\ \A i \in 1..Len(gp_rejected) : gp_rejected[i] # prime_result.value

\* getprime has returned for a number of bits that is not a multiple of 8,
\* after a rejected candidate
C20_Witness ==
    /\ prime_pc = "getprime_done"
    /\ gp_nbits % 8 # 0
    /\ gp_nbits > 8
    /\ Len(gp_rejected) > 0

----------------------------------------------------------------------------
(***************************************************************************)
(* rsa/parallel.py: getprime(nbits, poolsize)                              *)
(*                                                                         *)
(* The processes are forked.  Worker w writes to its own pipe, pipes[w];   *)
(* the model counts the workers from 1, so pipes[0] of the source is       *)
(* pipes[1].  A worker process stays "running" while it draws candidates   *)
(* or waits to send, is "exited" once an exception has ended it and        *)
(* "terminated" after p.terminate().                                       *)
(***************************************************************************)

\* Bounds of the inputs
MaxPool == 3

MaxPipe == 2

\* nbits of the calls
ParBits == {2, 3}

\* what one iteration of rsa.prime.getprime's loop does with a candidate:
\* "accept" (it is returned), "reject" (the loop goes on) or "raise"
candidate_outcome(nbits, whole_bytes, last, draws) ==
    LET tested == is_prime(read_random_odd_int(nbits, whole_bytes, last), draws)
    IN  IF tested.exc # "none" THEN "raise"
        ELSE IF tested.value THEN "accept"
        ELSE "reject"

\* getprime(nbits, poolsize): the call
ParGetPrime ==
    /\ par_pc = "idle"
    /\ \E nbits \in ParBits, poolsize \in 1..MaxPool : par_args' = <<nbits, poolsize>>
    /\ par_pc' = "starting"
    /\ UNCHANGED <<procs, pipes, term_i, par_result, first_sent>>
    /\ UNCHANGED parOthers

\* one iteration of `for _ in range(poolsize)`: a pipe and a started process;
\* after the last one getprime waits in pipes[0].recv()
StartWorker ==
    /\ par_pc = "starting"
    /\ Len(procs) < par_args[2]
    /\ pipes' = Append(pipes, <<>>)
    /\ procs' = Append(procs, "running")
    /\ par_pc' = IF Len(procs) + 1 = par_args[2] THEN "recv" ELSE "starting"
    /\ UNCHANGED <<par_args, term_i, par_result, first_sent>>
    /\ UNCHANGED parOthers

\* worker w: rsa.prime.getprime(nbits) returns a prime, after any number of
\* rejected candidates, and pipe.send(prime) puts it into the worker's pipe
WorkerSend(w) ==
    /\ w <= Len(procs)
    /\ procs[w] = "running"
    /\ Len(pipes[w]) < MaxPipe
    /\ \E whole_bytes \in Urandom(par_args[1]), last \in UrandomLast(par_args[1]),
          draws \in PrimeDraws :
          /\ candidate_outcome(par_args[1], whole_bytes, last, draws) = "accept"
          /\ pipes' = [pipes EXCEPT ![w] =
                          Append(@, read_random_odd_int(par_args[1], whole_bytes, last))]
    /\ first_sent' = IF first_sent = 0 THEN w ELSE first_sent
    /\ UNCHANGED <<par_pc, par_args, procs, term_i, par_result>>
    /\ UNCHANGED parOthers

\* worker w: is_prime raises in rsa.prime.getprime; the exception ends the
\* process
WorkerCrash(w) ==
    /\ w <= Len(procs)
    /\ procs[w] = "running"
    /\ \E whole_bytes \in Urandom(par_args[1]), last \in UrandomLast(par_args[1]),
          draws \in PrimeDraws :
          candidate_outcome(par_args[1], whole_bytes, last, draws) = "raise"
    /\ procs' = [procs EXCEPT ![w] = "exited"]
    /\ UNCHANGED <<par_pc, par_args, pipes, term_i, par_result, first_sent>>
    /\ UNCHANGED parOthers

\* result = pipes[0].recv(): possible when the first worker's pipe holds a prime
Recv ==
    /\ par_pc = "recv"
    /\ pipes[1] # <<>>
    /\ par_result' = Returned(Head(pipes[1]))
    /\ pipes' = [pipes EXCEPT ![1] = Tail(@)]
    /\ par_pc' = "terminating"
    /\ term_i' = 1
    /\ UNCHANGED <<par_args, procs, first_sent>>
    /\ UNCHANGED parOthers

\* pipes[0].recv() raises EOFError: the first worker has exited, its pipe is
\* empty and no process holds the sending end any more (the parent's reference
\* went when the loop made the next pipe, so this needs a second worker);
\* getprime is left without terminating anything.  With one worker the parent
\* still holds the sending end and recv() keeps waiting.
RecvEOF ==
    /\ par_pc = "recv"
    /\ pipes[1] = <<>>
    /\ procs[1] = "exited"
    /\ par_args[2] > 1
    /\ par_result' = Raised("EOFError", "")
    /\ par_pc' = "raised"
    /\ UNCHANGED <<par_args, procs, pipes, term_i, first_sent>>
    /\ UNCHANGED parOthers

\* one iteration of `for p in processes: p.terminate()`
Terminate ==
    /\ par_pc = "terminating"
    /\ term_i <= Len(procs)
    /\ procs' = [procs EXCEPT ![term_i] = "terminated"]
    /\ term_i' = term_i + 1
    /\ UNCHANGED <<par_pc, par_args, pipes, par_result, first_sent>>
    /\ UNCHANGED parOthers

\* return result
ParReturn ==
    /\ par_pc = "terminating"
    /\ term_i > Len(procs)
    /\ par_pc' = "returned"
    /\ UNCHANGED <<par_args, procs, pipes, term_i, par_result, first_sent>>
    /\ UNCHANGED parOthers

ParNext ==
    \/ ParGetPrime
    \/ StartWorker
    \/ \E w \in 1..MaxPool : WorkerSend(w)
    \/ \E w \in 1..MaxPool : WorkerCrash(w)
    \/ Recv
    \/ RecvEOF
    \/ Terminate
    \/ ParReturn

\* C17: with poolsize > 1 the first prime any worker sends is the one
\* getprime returns: once a worker has sent a prime, getprime can take it and
\* return, whichever worker it was.
C17_FirstPrimeWins ==
    par_args[2] > 1 =>
        /\ (par_pc = "recv" /\ \E w \in 1..Len(pipes) : pipes[w] # <<>>)
              => ENABLED Recv
        /\ par_pc = "returned" => first_sent = 1

\* at the return every started worker has been asked to terminate, and no
\* worker is terminated before a prime has been received
C18_TerminatedAtReturn ==
    /\ par_pc = "returned" =>
          \A w \in 1..Len(procs) : procs[w] = "terminated"
    /\ (\E w \in 1..Len(procs) : procs[w] = "terminated") =>
          /\ par_pc \in {"terminating", "returned"}
          /\ par_result.exc = "none"

\* C18: when getprime returns, every started worker has been asked to
\* terminate, none before a prime was received; every started worker is
\* eventually stopped, and getprime never leaves one running.
C18_WorkersStopped ==
    /\ []C18_TerminatedAtReturn
    /\ [](par_pc = "raised" => \A w \in 1..Len(procs) : procs[w] # "running")
    /\ \A w \in 1..MaxPool :
          (w <= Len(procs) /\ procs[w] = "running")
             ~> (w <= Len(procs) /\ procs[w] # "running")

----------------------------------------------------------------------------
(***************************************************************************)
(* rsa/cli.py: CryptoOperation.__call__ and its four subclasses            *)
(*                                                                         *)
(* The files named on the command line are readable and hold what the      *)
(* operation expects; whether the operation itself succeeds is an input.   *)
(***************************************************************************)

\* the class attributes of the four operations
CliOperations ==
    "encrypt" :> [key_class |-> "PublicKey",  expected_cli_args |-> 1, has_output |-> TRUE] @@
    "decrypt" :> [key_class |-> "PrivateKey", expected_cli_args |-> 1, has_output |-> TRUE] @@
    "sign"    :> [key_class |-> "PrivateKey", expected_cli_args |-> 2, has_output |-> TRUE] @@
    "verify"  :> [key_class |-> "PublicKey",  expected_cli_args |-> 2, has_output |-> FALSE]

\* the options parse_cli adds to the parser: --keyform only for a public key
parser_options(op) ==
    {"input", "output"} \cup
    (IF CliOperations[op].key_class = "PublicKey" THEN {"keyform"} ELSE {})

\* how a run ends: sys.exit status, and the exception that ended it
CliExit(status, exc) == [status |-> status, exc |-> exc]

CliRunning == [status |-> -1, exc |-> "none"]

\* Bounds of the inputs
MaxCliArgs == 3

\* a command line: the number of positional arguments, whether -i and -o
\* are given, and the value of --keyform ("" when it is not given)
CliArgvs ==
    [nargs : 0..MaxCliArgs, input : BOOLEAN, output : BOOLEAN,
     keyform : {"", "PEM", "DER"}]

\* self.<step>(...) is called
Called(step) == cli_trace' = Append(cli_trace, step)

\* the operation is started with a command line
CliCall ==
    /\ cli_pc = "idle"
    /\ \E op \in DOMAIN CliOperations, argv \in CliArgvs, ok \in BOOLEAN :
          /\ cli_op' = op
          /\ cli_argv' = argv
          /\ cli_op_ok' = ok
    /\ cli_pc' = "parse_cli"
    /\ UNCHANGED <<cli_trace, cli_exit>>
    /\ UNCHANGED cliOthers

\* cli, cli_args = self.parse_cli(): optparse ends the run with status 2 for an
\* option the parser does not have; a wrong number of positional arguments
\* prints the help and raises SystemExit(1)
ParseCli ==
    /\ cli_pc = "parse_cli"
    /\ Called("parse_cli")
    /\ IF cli_argv.keyform # "" /\ "keyform" \notin parser_options(cli_op)
       THEN /\ cli_pc' = "exited"
            /\ cli_exit' = CliExit(2, "SystemExit")
       ELSE IF cli_argv.nargs # CliOperations[cli_op].expected_cli_args
       THEN /\ cli_pc' = "exited"
            /\ cli_exit' = CliExit(1, "SystemExit")
       ELSE /\ cli_pc' = "read_key"
            /\ UNCHANGED cli_exit
    /\ UNCHANGED <<cli_op, cli_argv, cli_op_ok>>
    /\ UNCHANGED cliOthers

\* key = self.read_key(cli_args[0], cli.keyform): cli has an attribute for
\* each option of the parser, so cli.keyform raises AttributeError when the
\* parser has no --keyform, before read_key is called
ReadKey ==
    /\ cli_pc = "read_key"
    /\ IF "keyform" \notin parser_options(cli_op)
       THEN /\ cli_pc' = "exited"
            /\ cli_exit' = CliExit(1, "AttributeError")
            /\ UNCHANGED cli_trace
       ELSE /\ Called("read_key")
            /\ cli_pc' = "read_infile"
            /\ UNCHANGED cli_exit
    /\ UNCHANGED <<cli_op, cli_argv, cli_op_ok>>
    /\ UNCHANGED cliOthers

\* indata = self.read_infile(cli.input)
ReadInfile ==
    /\ cli_pc = "read_infile"
    /\ Called("read_infile")
    /\ cli_pc' = "perform_operation"
    /\ UNCHANGED <<cli_op, cli_argv, cli_op_ok, cli_exit>>
    /\ UNCHANGED cliOthers

\* outdata = self.perform_operation(indata, key, cli_args): an exception of
\* the operation ends the run (verify turns VerificationError into
\* SystemExit(1)); then the output is written, if self.has_output
PerformOperation ==
    /\ cli_pc = "perform_operation"
    /\ Called("perform_operation")
    /\ IF ~cli_op_ok
       THEN /\ cli_pc' = "exited"
            /\ cli_exit' = CliExit(1, IF cli_op = "verify" THEN "SystemExit"
                                      ELSE "CryptoError")
       ELSE IF CliOperations[cli_op].has_output
       THEN /\ cli_pc' = "write_outfile"
            /\ UNCHANGED cli_exit
       ELSE /\ cli_pc' = "done"
            /\ cli_exit' = CliExit(0, "none")
    /\ UNCHANGED <<cli_op, cli_argv, cli_op_ok>>
    /\ UNCHANGED cliOthers

\* self.write_outfile(outdata, cli.output)
WriteOutfile ==
    /\ cli_pc = "write_outfile"
    /\ Called("write_outfile")
    /\ cli_pc' = "done"
    /\ cli_exit' = CliExit(0, "none")
    /\ UNCHANGED <<cli_op, cli_argv, cli_op_ok>>
    /\ UNCHANGED cliOthers

CliNext ==
    \/ CliCall
    \/ ParseCli
    \/ ReadKey
    \/ ReadInfile
    \/ PerformOperation
    \/ WriteOutfile

\* the steps of a run of op whose operation succeeds
ExpectedSteps(op) ==
    <<"parse_cli", "read_key", "read_infile", "perform_operation">>
        \o (IF CliOperations[op].has_output THEN <<"write_outfile">> ELSE <<>>)

\* the options the documented command line of op allows
DocumentedArgv(op, argv) ==
    argv.keyform # "" => CliOperations[op].key_class = "PublicKey"

\* C19: each of encrypt, decrypt, sign and verify, called with the expected
\* number of positional arguments, runs parse options, read key, read input,
\* perform operation in that order and writes the result exactly when the
\* operation has output (never for verify); a wrong number of positional
\* arguments exits with status 1 before a key or the input is read.
C19_CliSteps ==
    (cli_pc \in {"done", "exited"} /\ DocumentedArgv(cli_op, cli_argv)) =>
        IF cli_argv.nargs = CliOperations[cli_op].expected_cli_args
        THEN IF cli_op_ok
             THEN /\ cli_pc = "done"
                  /\ cli_trace = ExpectedSteps(cli_op)
                  /\ cli_op = "verify" => cli_trace[Len(cli_trace)] # "write_outfile"
             ELSE /\ cli_pc = "exited"
                  /\ cli_trace = SubSeq(ExpectedSteps(cli_op), 1, 4)
        ELSE /\ cli_pc = "exited"
             /\ cli_exit.status = 1
             /\ cli_trace = <<"parse_cli">>

----------------------------------------------------------------------------
(* Specifications: one per component, the other components at rest *)

\* the components of rsa/pkcs1.py and rsa/pem.py at rest
CryptAtRest ==
    /\ pc = "off"
    /\ key = KeyPair(MinKeyBytes, 197)
    /\ message = <<>>
    /\ padding = <<>>
    /\ padded = <<>>
    /\ crypto = <<>>
    /\ cleartext = <<>>
    /\ origin = "none"
    /\ outcome = Pending

SignAtRest ==
    /\ spc = "off"
    /\ skey = KeyPair(SmallKeyBytes, 197)
    /\ smessage = <<>>
    /\ shash = ""
    /\ signature = <<>>
    /\ sign_exc = "pending"
    /\ vmessage = <<>>
    /\ clearsig = <<>>
    /\ sorigin = "none"
    /\ verified = VPending

PemAtRest ==
    /\ ppc = "off"
    /\ pem_contents = <<>>
    /\ pem_marker = <<>>
    /\ pem_text = <<>>
    /\ pem_lines = <<>>
    /\ pem_origin = "none"
    /\ pem_result = Pending

NumAtRest ==
    /\ npc = "off"
    /\ nargs = <<0, 0>>
    /\ egcd = egcd_init(0, 0)
    /\ nresult = NPending

MgfAtRest ==
    /\ mpc = "off"
    /\ margs = <<<<>>, <<>>, "">>
    /\ mresult = Pending

RandAtRest ==
    /\ rpc = "off"
    /\ rmaxvalue = 0
    /\ rnbits = 0
    /\ rdraw = <<<<>>, 0>>
    /\ rbytes = <<>>
    /\ rvalue = 0

PrimeAtRest ==
    /\ prime_pc = "off"
    /\ prime_args = <<0, 0>>
    /\ prime_draws = <<>>
    /\ prime_result = Pending
    /\ gp_nbits = 0
    /\ gp_integer = 0
    /\ gp_rejected = <<>>

ParAtRest ==
    /\ par_pc = "off"
    /\ par_args = <<0, 0>>
    /\ procs = <<>>
    /\ pipes = <<>>
    /\ term_i = 0
    /\ par_result = Pending
    /\ first_sent = 0

CliAtRest ==
    /\ cli_pc = "off"
    /\ cli_op = ""
    /\ cli_argv = [nargs |-> 0, input |-> FALSE, output |-> FALSE, keyform |-> ""]
    /\ cli_op_ok = FALSE
    /\ cli_trace = <<>>
    /\ cli_exit = CliRunning

InitCrypt ==
    /\ pc = "idle"
    /\ key \in CryptKeys
    /\ message = <<>>
    /\ padding = <<>>
    /\ padded = <<>>
    /\ crypto = <<>>
    /\ cleartext = <<>>
    /\ origin = "none"
    /\ outcome = Pending
    /\ spc = "off"
    /\ skey = KeyPair(SmallKeyBytes, 197)
    /\ smessage = <<>>
    /\ shash = ""
    /\ signature = <<>>
    /\ sign_exc = "pending"
    /\ vmessage = <<>>
    /\ clearsig = <<>>
    /\ sorigin = "none"
    /\ verified = VPending
    /\ ppc = "off"
    /\ pem_contents = <<>>
    /\ pem_marker = <<>>
    /\ pem_text = <<>>
    /\ pem_lines = <<>>
    /\ pem_origin = "none"
    /\ pem_result = Pending
    /\ NumAtRest
    /\ MgfAtRest
    /\ RandAtRest
    /\ PrimeAtRest
    /\ ParAtRest
    /\ CliAtRest

InitSign ==
    /\ pc = "off"
    /\ key = KeyPair(MinKeyBytes, 197)
    /\ message = <<>>
    /\ padding = <<>>
    /\ padded = <<>>
    /\ crypto = <<>>
    /\ cleartext = <<>>
    /\ origin = "none"
    /\ outcome = Pending
    /\ spc = "idle"
    /\ skey \in SignKeys
    /\ smessage = <<>>
    /\ shash = ""
    /\ signature = <<>>
    /\ sign_exc = "pending"
    /\ vmessage = <<>>
    /\ clearsig = <<>>
    /\ sorigin = "none"
    /\ verified = VPending
    /\ ppc = "off"
    /\ pem_contents = <<>>
    /\ pem_marker = <<>>
    /\ pem_text = <<>>
    /\ pem_lines = <<>>
    /\ pem_origin = "none"
    /\ pem_result = Pending
    /\ NumAtRest
    /\ MgfAtRest
    /\ RandAtRest
    /\ PrimeAtRest
    /\ ParAtRest
    /\ CliAtRest

InitPem ==
    /\ pc = "off"
    /\ key = KeyPair(MinKeyBytes, 197)
    /\ message = <<>>
    /\ padding = <<>>
    /\ padded = <<>>
    /\ crypto = <<>>
    /\ cleartext = <<>>
    /\ origin = "none"
    /\ outcome = Pending
    /\ spc = "off"
    /\ skey = KeyPair(SmallKeyBytes, 197)
    /\ smessage = <<>>
    /\ shash = ""
    /\ signature = <<>>
    /\ sign_exc = "pending"
    /\ vmessage = <<>>
    /\ clearsig = <<>>
    /\ sorigin = "none"
    /\ verified = VPending
    /\ ppc = "idle"
    /\ pem_contents = <<>>
    /\ pem_marker = <<>>
    /\ pem_text = <<>>
    /\ pem_lines = <<>>
    /\ pem_origin = "none"
    /\ pem_result = Pending
    /\ NumAtRest
    /\ MgfAtRest
    /\ RandAtRest
    /\ PrimeAtRest
    /\ ParAtRest
    /\ CliAtRest

SpecCrypt == InitCrypt /\ [][CryptNext]_vars

SpecSign == InitSign /\ [][SignNext]_vars

SpecPem == InitPem /\ [][PemNext]_vars

InitNum ==
    /\ CryptAtRest
    /\ SignAtRest
    /\ PemAtRest
    /\ npc = "idle"
    /\ nargs = <<0, 0>>
    /\ egcd = egcd_init(0, 0)
    /\ nresult = NPending
    /\ MgfAtRest
    /\ RandAtRest
    /\ PrimeAtRest
    /\ ParAtRest
    /\ CliAtRest

InitMgf ==
    /\ CryptAtRest
    /\ SignAtRest
    /\ PemAtRest
    /\ NumAtRest
    /\ mpc = "idle"
    /\ margs = <<<<>>, <<>>, "">>
    /\ mresult = Pending
    /\ RandAtRest
    /\ PrimeAtRest
    /\ ParAtRest
    /\ CliAtRest

InitRand ==
    /\ CryptAtRest
    /\ SignAtRest
    /\ PemAtRest
    /\ NumAtRest
    /\ MgfAtRest
    /\ rpc = "idle"
    /\ rmaxvalue = 0
    /\ rnbits = 0
    /\ rdraw = <<<<>>, 0>>
    /\ rbytes = <<>>
    /\ rvalue = 0
    /\ PrimeAtRest
    /\ ParAtRest
    /\ CliAtRest

InitPrime ==
    /\ CryptAtRest
    /\ SignAtRest
    /\ PemAtRest
    /\ NumAtRest
    /\ MgfAtRest
    /\ RandAtRest
    /\ prime_pc = "idle"
    /\ prime_args = <<0, 0>>
    /\ prime_draws = <<>>
    /\ prime_result = Pending
    /\ gp_nbits = 0
    /\ gp_integer = 0
    /\ gp_rejected = <<>>
    /\ ParAtRest
    /\ CliAtRest

InitPar ==
    /\ CryptAtRest
    /\ SignAtRest
    /\ PemAtRest
    /\ NumAtRest
    /\ MgfAtRest
    /\ RandAtRest
    /\ PrimeAtRest
    /\ par_pc = "idle"
    /\ par_args = <<0, 0>>
    /\ procs = <<>>
    /\ pipes = <<>>
    /\ term_i = 0
    /\ par_result = Pending
    /\ first_sent = 0
    /\ CliAtRest

InitCli ==
    /\ CryptAtRest
    /\ SignAtRest
    /\ PemAtRest
    /\ NumAtRest
    /\ MgfAtRest
    /\ RandAtRest
    /\ PrimeAtRest
    /\ ParAtRest
    /\ cli_pc = "idle"
    /\ cli_op = ""
    /\ cli_argv = [nargs |-> 0, input |-> FALSE, output |-> FALSE, keyform |-> ""]
    /\ cli_op_ok = FALSE
    /\ cli_trace = <<>>
    /\ cli_exit = CliRunning

SpecGcd ==
    /\ InitNum
    /\ [][GcdNext]_vars
    /\ WF_vars(GcdLoop)
    /\ WF_vars(GcdReturn)

SpecNum == InitNum /\ [][NumNext]_vars

SpecMgf == InitMgf /\ [][MgfNext]_vars

SpecRand == InitRand /\ [][RandNext]_vars

SpecRandint == InitRand /\ [][RandintNext]_vars

SpecPrime == InitPrime /\ [][PrimeNext]_vars

SpecGetprime == InitPrime /\ [][GetPrimeNext]_vars

SpecPar ==
    /\ InitPar
    /\ [][ParNext]_vars
    /\ WF_vars(StartWorker)
    /\ WF_vars(Recv)
    /\ WF_vars(Terminate)
    /\ WF_vars(ParReturn)
    /\ \A w \in 1..MaxPool : SF_vars(WorkerSend(w))

SpecCli == InitCli /\ [][CliNext]_vars

====
